---- MODULE Spec2Model ----
(***************************************************************************)
(* The churn prediction service of api/main.py: the startup loader, the    *)
(* request validation done by the CustomerData schema, the /predict and    *)
(* /predict/batch handlers, the GET endpoints and the audit log.           *)
(*                                                                         *)
(* The specifications.  Spec is the service, one action per handler.     *)
(* ShapeSpec applies the response shaping of the two POST handlers to      *)
(* every model output of a bounded set.  LogSpec runs log_prediction       *)
(* statement by statement for several callers at once.                     *)
(* CleanSpec, GenSpec and DriftSpec are the scripts around the service:    *)
(* DataPreprocessor.clean_data, generate_predictions.main and              *)
(* monitoring/drift_check.py.                                              *)
(*                                                                         *)
(* Numbers.  JSON numbers are integers here; a probability is an integer   *)
(* count of 1/100000 (so 0.7 is 70000) and a reported churn_probability a  *)
(* count of 1/10000.  Timestamps and execution times are left out of the   *)
(* rows and responses: they are clock readings that no handler branches on.*)
(*                                                                         *)
(* Scheduling.  Every handler is an `async def` without an await, so the   *)
(* event loop runs it to completion before the next one starts: one action *)
(* per handler.                                                            *)
(***************************************************************************)
EXTENDS Integers, Sequences, FiniteSets, TLC

VARIABLES
    disk,       \* what lies at each candidate path of load_model_at_startup
    logDirOk,   \* whether LOG_FILE can be opened for appending
    probe,      \* the field the client of this run varies in its requests
    suite,      \* the kind of requests the client of this run sends
    model,      \* the global model handle
    started,    \* "no": startup has not run; "ready"; "failed": startup raised
    assigns,    \* number of assignments to the handle since the process began
    logFile,    \* the lines of LOG_FILE
    resp,       \* the last request served and its response
    raw,        \* ShapeSpec: what model.predict and model.predict_proba returned
    shaped,     \* ShapeSpec: the response built from raw
    pc,         \* LogSpec: where each caller of log_prediction stands
    built,      \* LogSpec: the row each caller has built
    LOCK,       \* LogSpec: the caller holding LOCK, 0 when it is free
    atStart,    \* LogSpec: what each caller's f.tell() == 0 gave
    returned,   \* LogSpec: calls of log_prediction that have returned
    dp,         \* CleanSpec: the DataPreprocessor, its data as columns and cells
    gen,        \* GenSpec: the run of generate_predictions.main
    drift       \* DriftSpec: the run of drift_check.py

serviceVars == <<disk, logDirOk, probe, suite, model, started, assigns>>

shapeVars == <<raw, shaped>>

lockVars == <<pc, built, LOCK, atStart, returned>>

scriptVars == <<dp, gen, drift>>

vars == <<disk, logDirOk, probe, suite, model, started, assigns, logFile, resp,
          raw, shaped, pc, built, LOCK, atStart, returned, dp, gen, drift>>

(***************************************************************************)
(* Bounds of the exploration.                                              *)
(***************************************************************************)
MaxLog == 2      \* data rows that the log may hold before /predict stops being explored
MaxBatch == 2    \* records in one /predict/batch body
MaxCallers == 2  \* callers of log_prediction running at once

(***************************************************************************)
(* CustomerData: the fields in declaration order and their constraints.    *)
(***************************************************************************)
FieldOrder ==
    << "tenure", "MonthlyCharges", "TotalCharges", "SeniorCitizen",
       "Partner", "Dependents", "PhoneService", "PaperlessBilling",
       "gender_Male",
       "MultipleLines_No_phone_service", "MultipleLines_Yes",
       "InternetService_Fiber_optic", "InternetService_No",
       "OnlineSecurity_No_internet_service", "OnlineSecurity_Yes",
       "OnlineBackup_No_internet_service", "OnlineBackup_Yes",
       "DeviceProtection_No_internet_service", "DeviceProtection_Yes",
       "TechSupport_No_internet_service", "TechSupport_Yes",
       "StreamingTV_No_internet_service", "StreamingTV_Yes",
       "StreamingMovies_No_internet_service", "StreamingMovies_Yes",
       "Contract_One_year", "Contract_Two_year",
       "PaymentMethod_Credit_card_automatic",
       "PaymentMethod_Electronic_check", "PaymentMethod_Mailed_check" >>

Range(s) == {s[i] : i \in 1..Len(s)}

Fields == Range(FieldOrder)

\* Field(...): the fields declared without a default.
RequiredFields ==
    {"tenure", "MonthlyCharges", "TotalCharges", "SeniorCitizen",
     "Partner", "Dependents", "PhoneService", "PaperlessBilling"}

OptionalFields == Fields \ RequiredFields

\* Field(0, ...): the default of every optional field.
FieldDefault(f) == 0

\* ge= of a field (every field declares ge=0).
FieldGe(f) == 0

\* whether the field declares le=
HasLe(f) == f # "TotalCharges"

\* le= of a field that declares one
FieldLe(f) ==
    CASE f = "tenure" -> 100
      [] f = "MonthlyCharges" -> 200
      [] OTHER -> 1

\* float('inf'): TotalCharges declares no le=, so the schema admits it.
FloatInf == 1000000

(***************************************************************************)
(* A request body is a JSON object: a sequence of <<name, value>> members  *)
(* with distinct names, in the order the client wrote them.                *)
(***************************************************************************)
\* the parsed body: json.loads keeps the members by name, whatever their order
JsonObject(body) ==
    [f \in {body[i][1] : i \in 1..Len(body)} |->
        body[CHOOSE i \in 1..Len(body) : body[i][1] = f][2]]

\* pydantic without the le= check: the bug a forgotten upper bound would be
FieldErrors_NoLe(obj, f) ==
    IF f \notin DOMAIN obj
    THEN IF f \in RequiredFields THEN {<<f, "missing">>} ELSE {}
    ELSE IF obj[f] < FieldGe(f) THEN {<<f, "ge">>} ELSE {}

\* pydantic with every optional field treated as required
FieldErrors_AllRequired(obj, f) ==
    IF f \notin DOMAIN obj
    THEN {<<f, "missing">>}
    ELSE (IF obj[f] < FieldGe(f) THEN {<<f, "ge">>} ELSE {})
         \cup (IF HasLe(f) /\ obj[f] > FieldLe(f) THEN {<<f, "le">>} ELSE {})

\* The errors pydantic reports for one field of CustomerData.
FieldErrors(obj, f) ==
    IF f \notin DOMAIN obj
    THEN IF f \in RequiredFields THEN {<<f, "missing">>} ELSE {}
    ELSE (IF obj[f] < FieldGe(f) THEN {<<f, "ge">>} ELSE {})
         \cup (IF HasLe(f) /\ obj[f] > FieldLe(f) THEN {<<f, "le">>} ELSE {})

\* Validation of a parsed body against CustomerData; members that are no
\* field are ignored.
ValidationErrors(obj) == UNION {FieldErrors(obj, f) : f \in Fields}

\* customer.dict() with defaults of 1: a wrong default
CustomerDict_DefaultOne(obj) ==
    [f \in Fields |-> IF f \in DOMAIN obj THEN obj[f] ELSE 1]

\* customer.dict(): every field, an absent optional one with its default.
CustomerDict(obj) ==
    [f \in Fields |-> IF f \in DOMAIN obj THEN obj[f] ELSE FieldDefault(f)]

(***************************************************************************)
(* pandas: a one-row frame is its column names and the row's values.       *)
(***************************************************************************)
\* pd.DataFrame([input_dict]): the columns are the dict's keys, in field order.
DataFrame(input_dict) ==
    [columns |-> FieldOrder,
     values  |-> [i \in 1..Len(FieldOrder) |-> input_dict[FieldOrder[i]]]]

IndexOf(s, x) == CHOOSE i \in 1..Len(s) : s[i] = x

KeyError == [columns |-> <<"KeyError">>, values |-> <<>>]

\* the selection left out: the frame goes to the model as it was built
SelectColumns_NoReorder(df, names) == df

\* input_df[names]: the named columns in the order of names; KeyError when a
\* name is no column.
SelectColumns(df, names) ==
    IF ~(Range(names) \subseteq Range(df.columns))
    THEN KeyError
    ELSE [columns |-> names,
          values  |-> [i \in 1..Len(names) |-> df.values[IndexOf(df.columns, names[i])]]]

(***************************************************************************)
(* The artifacts the training scripts leave on disk, told apart by the     *)
(* feature names the booster was fit with.                                 *)
(***************************************************************************)
\* The columns of X_train.csv: the columns that feature_engineering does not
\* encode, in the raw data's order, then the get_dummies columns.
RawTrainColumns ==
    << "SeniorCitizen", "Partner", "Dependents", "tenure", "PhoneService",
       "PaperlessBilling", "MonthlyCharges", "TotalCharges",
       "gender_Male",
       "MultipleLines_No phone service", "MultipleLines_Yes",
       "InternetService_Fiber optic", "InternetService_No",
       "OnlineSecurity_No internet service", "OnlineSecurity_Yes",
       "OnlineBackup_No internet service", "OnlineBackup_Yes",
       "DeviceProtection_No internet service", "DeviceProtection_Yes",
       "TechSupport_No internet service", "TechSupport_Yes",
       "StreamingTV_No internet service", "StreamingTV_Yes",
       "StreamingMovies_No internet service", "StreamingMovies_Yes",
       "Contract_One year", "Contract_Two year",
       "PaymentMethod_Credit card (automatic)",
       "PaymentMethod_Electronic check", "PaymentMethod_Mailed check" >>

\* name.replace(' ', '_').replace('(', '').replace(')', '')
StandardName(name) ==
    CASE name = "MultipleLines_No phone service" -> "MultipleLines_No_phone_service"
      [] name = "InternetService_Fiber optic" -> "InternetService_Fiber_optic"
      [] name = "OnlineSecurity_No internet service" -> "OnlineSecurity_No_internet_service"
      [] name = "OnlineBackup_No internet service" -> "OnlineBackup_No_internet_service"
      [] name = "DeviceProtection_No internet service" -> "DeviceProtection_No_internet_service"
      [] name = "TechSupport_No internet service" -> "TechSupport_No_internet_service"
      [] name = "StreamingTV_No internet service" -> "StreamingTV_No_internet_service"
      [] name = "StreamingMovies_No internet service" -> "StreamingMovies_No_internet_service"
      [] name = "Contract_One year" -> "Contract_One_year"
      [] name = "Contract_Two year" -> "Contract_Two_year"
      [] name = "PaymentMethod_Credit card (automatic)" -> "PaymentMethod_Credit_card_automatic"
      [] name = "PaymentMethod_Electronic check" -> "PaymentMethod_Electronic_check"
      [] name = "PaymentMethod_Mailed check" -> "PaymentMethod_Mailed_check"
      [] OTHER -> name

\* The columns the SageMaker job fits on: read with header=None, label column
\* dropped, so they are the integers 1..30, which the booster keeps as strings.
SageMakerColumns == [i \in 1..Len(RawTrainColumns) |-> ToString(i)]

\* model._Booster.feature_names of an artifact:
\*   "fixed"     written by fix_model_features.py (names standardized)
\*   "raw"       written by retrain_model.py (names as in X_train.csv)
\*   "sagemaker" written by sagemaker/train.py
\*   "unnamed"   a model fitted on a bare array: feature_names is None, and
\*               input_df[None] looks the key None up among the columns
FeatureNames(kind) ==
    CASE kind = "fixed" -> [i \in 1..Len(RawTrainColumns) |-> StandardName(RawTrainColumns[i])]
      [] kind = "raw" -> RawTrainColumns
      [] kind = "sagemaker" -> SageMakerColumns
      [] kind = "unnamed" -> <<"None">>
      [] OTHER -> <<>>

ArtifactKinds == {"fixed", "raw", "sagemaker", "unnamed"}

\* model = None
NoModel == [path |-> 0, kind |-> "None"]

(***************************************************************************)
(* load_model_at_startup                                                   *)
(***************************************************************************)
model_paths ==
    << [path |-> "../models/churn_model_fixed.joblib", ext |-> ".joblib"],
       [path |-> "../models/sagemaker_production/model.joblib", ext |-> ".joblib"],
       [path |-> "/Users/apple/Documents/Practice ML/customer-churn-mlops/models/sagemaker_production/model.joblib",
        ext |-> ".joblib"] >>

\* os.path.exists(path)
PathExists(d, i) == d[i] # "missing"

\* joblib.load / pickle.load return instead of raising
Loads(d, i) == d[i] \in ArtifactKinds

RECURSIVE LoadLoop_NoReturn(_, _, _, _)
\* the loop without its `return`: every loadable candidate is assigned in turn
LoadLoop_NoReturn(d, i, m, n) ==
    IF i > Len(model_paths)
    THEN [model |-> m, assigns |-> n, raised |-> TRUE]
    ELSE IF PathExists(d, i) /\ model_paths[i].ext \in {".joblib", ".pkl"} /\ Loads(d, i)
         THEN LoadLoop_NoReturn(d, i + 1, [path |-> i, kind |-> d[i]], n + 1)
         ELSE LoadLoop_NoReturn(d, i + 1, m, n)

RECURSIVE LoadLoop_NoRaise(_, _, _, _)
\* the function without its final `raise`
LoadLoop_NoRaise(d, i, m, n) ==
    IF i > Len(model_paths)
    THEN [model |-> m, assigns |-> n, raised |-> FALSE]
    ELSE IF PathExists(d, i) /\ model_paths[i].ext \in {".joblib", ".pkl"} /\ Loads(d, i)
         THEN [model |-> [path |-> i, kind |-> d[i]], assigns |-> n + 1, raised |-> FALSE]
         ELSE LoadLoop_NoRaise(d, i + 1, m, n)

RECURSIVE LoadLoop_StopAtFirstExisting(_, _, _, _)
\* the loop giving up at the first existing path that does not load
LoadLoop_StopAtFirstExisting(d, i, m, n) ==
    IF i > Len(model_paths)
    THEN [model |-> m, assigns |-> n, raised |-> TRUE]
    ELSE IF PathExists(d, i)
         THEN IF model_paths[i].ext \in {".joblib", ".pkl"} /\ Loads(d, i)
              THEN [model |-> [path |-> i, kind |-> d[i]], assigns |-> n + 1, raised |-> FALSE]
              ELSE [model |-> m, assigns |-> n, raised |-> TRUE]
         ELSE LoadLoop_StopAtFirstExisting(d, i + 1, m, n)

RECURSIVE LoadLoop(_, _, _, _)
\* The for loop from candidate i on, with handle m assigned n times so far:
\* the handle, the assignments and whether "Model not found!" is raised.
LoadLoop(d, i, m, n) ==
    IF i > Len(model_paths)
    THEN [model |-> m, assigns |-> n, raised |-> TRUE]
    ELSE IF PathExists(d, i)
         THEN IF model_paths[i].ext = ".joblib"
              THEN IF Loads(d, i)
                   THEN [model |-> [path |-> i, kind |-> d[i]], assigns |-> n + 1, raised |-> FALSE]
                   ELSE LoadLoop(d, i + 1, m, n)        \* except: print, next path
              ELSE IF model_paths[i].ext = ".pkl"
                   THEN IF Loads(d, i)
                        THEN [model |-> [path |-> i, kind |-> d[i]], assigns |-> n + 1, raised |-> FALSE]
                        ELSE LoadLoop(d, i + 1, m, n)
                   ELSE LoadLoop(d, i + 1, m, n)        \* continue
         ELSE LoadLoop(d, i + 1, m, n)

\* the loop run over model_paths[1:]: the first candidate is never tried
load_model_at_startup_SkipFirst(d, m) == LoadLoop(d, 2, m, 0)

\* load_model_at_startup() called with handle m
load_model_at_startup(d, m) == LoadLoop(d, 1, m, 0)

(***************************************************************************)
(* The classifier library, as far as the handlers see it.                  *)
(***************************************************************************)
RECURSIVE WeightedSum(_, _)
WeightedSum(values, i) ==
    IF i = 0 THEN 0 ELSE i * values[i] + WeightedSum(values, i - 1)

\* model.predict / model.predict_proba raise: the booster checks the frame's
\* columns against its feature names and rejects inf.
ModelRaises(kind, df) ==
    \/ df.columns # FeatureNames(kind)
    \/ \E i \in 1..Len(df.values) : df.values[i] >= FloatInf

\* model.predict_proba(df)[0][1], in 1/100000: some fixed function of the
\* row's values by position, standing for the fitted trees.
PredictProba(kind, df) == (WeightedSum(df.values, Len(df.values)) * 7919) % 100001

\* model.predict(df)[0]: the class of the larger probability.
Predict(kind, df) == IF PredictProba(kind, df) > 50000 THEN 1 ELSE 0

\* what a handler passes to one model function
Call(fn, df) == [fn |-> fn, item |-> 1, columns |-> df.columns, values |-> df.values]

(***************************************************************************)
(* Response shaping                                                        *)
(***************************************************************************)
\* the tiers with their limits included on the High and Medium side
Confidence_AtOrBeyond(probability) ==
    IF probability >= 70000 \/ probability <= 30000 THEN "High"
    ELSE IF probability >= 60000 \/ probability <= 40000 THEN "Medium"
    ELSE "Low"

Confidence(probability) ==
    IF probability > 70000 \/ probability < 30000 THEN "High"
    ELSE IF probability > 60000 \/ probability < 40000 THEN "Medium"
    ELSE "Low"

\* the recommendation with 0.5 on the monitor side
Recommendation_HalfIsModerate(probability) ==
    IF probability > 70000
    THEN "High churn risk! Contact customer immediately with retention offer."
    ELSE IF probability >= 50000
         THEN "Moderate risk. Monitor customer satisfaction and engagement."
         ELSE "Low risk. Customer likely to stay. Focus on upselling opportunities."

Recommendation(probability) ==
    IF probability > 70000
    THEN "High churn risk! Contact customer immediately with retention offer."
    ELSE IF probability > 50000
         THEN "Moderate risk. Monitor customer satisfaction and engagement."
         ELSE "Low risk. Customer likely to stay. Focus on upselling opportunities."

Label(prediction) == IF prediction = 1 THEN "Will Churn" ELSE "Will Not Churn"

\* rounding to four decimals by cutting the fifth off
Round4_Truncates(probability) == probability \div 10

\* round(float(probability), 4), in 1/10000: to the nearest, a tie to the
\* even neighbour
Round4(probability) ==
    IF probability % 10 > 5 \/ (probability % 10 = 5 /\ (probability \div 10) % 2 = 1)
    THEN probability \div 10 + 1
    ELSE probability \div 10

\* a response whose label is taken from the probability
PredictionResponse_LabelFromProbability(prediction, probability, confidence, recommendation) ==
    [churn_prediction |-> IF probability > 50000 THEN "Will Churn" ELSE "Will Not Churn",
     churn_probability |-> Round4(probability),
     confidence |-> confidence,
     recommendation |-> recommendation]

\* the PredictionResponse that predict_churn returns
PredictionResponse(prediction, probability, confidence, recommendation) ==
    [churn_prediction |-> Label(prediction),
     churn_probability |-> Round4(probability),
     confidence |-> confidence,
     recommendation |-> recommendation]

\* the dict that predict_batch appends for a record it predicted
BatchSlot(prediction, probability) ==
    [churn_prediction |-> Label(prediction),
     churn_probability |-> Round4(probability),
     error |-> ""]

(***************************************************************************)
(* log_prediction                                                          *)
(***************************************************************************)
LogColumns == FieldOrder \o <<"prediction", "probability", "status", "exec_time", "timestamp">>

HeaderLine == [kind |-> "header", names |-> LogColumns]

DataRows(lines) == Cardinality({i \in 1..Len(lines) : lines[i].kind = "row"})

\* the row dict: the request's fields, then the outcome and the status
BuildRow(data, response, status) ==
    [kind |-> "row", names |-> LogColumns, data |-> data,
     prediction |-> response.churn_prediction,
     probability |-> response.churn_probability,
     status |-> status]

\* a log_prediction that opens the file for writing: what was there is lost
log_prediction_Truncates(lines, dirOk, data, response, status) ==
    IF ~dirOk
    THEN [raised |-> TRUE, lines |-> lines]
    ELSE [raised |-> FALSE, lines |-> <<HeaderLine, BuildRow(data, response, status)>>]

\* a header check that holds whatever the file holds
TellIsZero_Always(lines) == TRUE

\* f.tell() == 0 on the file just opened for appending
TellIsZero(lines) == Len(lines) = 0

\* log_prediction(data, response, status, exec_time) on a file holding lines,
\* run from its first statement to its last without another caller between:
\* open() raises when the file cannot be opened; the header goes first into
\* an empty file; then the row.
log_prediction(lines, dirOk, data, response, status) ==
    IF ~dirOk
    THEN [raised |-> TRUE, lines |-> lines]
    ELSE [raised |-> FALSE,
          lines |-> IF TellIsZero(lines)
                    THEN <<HeaderLine, BuildRow(data, response, status)>>
                    ELSE Append(lines, BuildRow(data, response, status))]

(***************************************************************************)
(* POST /predict                                                           *)
(***************************************************************************)
Reply(status, detail, out, calls, lines) ==
    [status |-> status, detail |-> detail, errors |-> {}, out |-> out,
     calls |-> calls, lines |-> lines]

NoOut == [churn_prediction |-> "", churn_probability |-> 0 - 1,
          confidence |-> "", recommendation |-> ""]

\* the literal dict {"churn_prediction": ..., "churn_probability": ...}
EllipsisResponse == [churn_prediction |-> "Ellipsis", churn_probability |-> "Ellipsis"]

\* a try block whose except answers with a default prediction
PredictTry_SwallowsError(m, lines, dirOk, customer) ==
    LET input_dict == CustomerDict(customer)
        input_df == SelectColumns(DataFrame(input_dict), FeatureNames(m.kind))
        fallback == PredictionResponse(0, 0, "Low", Recommendation(0))
    IN  IF input_df = KeyError
        THEN Reply(200, "", fallback, <<>>, lines)
        ELSE IF ModelRaises(m.kind, input_df)
             THEN Reply(200, "", fallback, <<Call("predict", input_df)>>, lines)
             ELSE LET prediction == Predict(m.kind, input_df)
                      probability == PredictProba(m.kind, input_df)
                      calls == <<Call("predict", input_df), Call("predict_proba", input_df)>>
                      logged == log_prediction(lines, dirOk, input_dict, EllipsisResponse, "success")
                  IN  IF logged.raised
                      THEN Reply(200, "", fallback, calls, lines)
                      ELSE Reply(200, "",
                                 PredictionResponse(prediction, probability,
                                                    Confidence(probability),
                                                    Recommendation(probability)),
                                 calls, logged.lines)

\* the try block of predict_churn, for a model that is loaded
PredictTry(m, lines, dirOk, customer) ==
    LET input_dict == CustomerDict(customer)
        input_df == SelectColumns(DataFrame(input_dict), FeatureNames(m.kind))
    IN  IF input_df = KeyError
        THEN Reply(500, "Prediction error", NoOut, <<>>, lines)
        ELSE IF ModelRaises(m.kind, input_df)
             THEN Reply(500, "Prediction error", NoOut, <<Call("predict", input_df)>>, lines)
             ELSE LET prediction == Predict(m.kind, input_df)
                      probability == PredictProba(m.kind, input_df)
                      calls == <<Call("predict", input_df), Call("predict_proba", input_df)>>
                      logged == log_prediction(lines, dirOk, input_dict, EllipsisResponse, "success")
                  IN  IF logged.raised
                      THEN Reply(500, "Prediction error", NoOut, calls, lines)
                      ELSE Reply(200, "",
                                 PredictionResponse(prediction, probability,
                                                    Confidence(probability),
                                                    Recommendation(probability)),
                                 calls, logged.lines)

\* the handler without its `if model is None` guard: the attribute access on
\* None raises inside the try block
predict_churn_NoGuard(m, lines, dirOk, customer) ==
    IF m = NoModel
    THEN Reply(500, "Prediction error", NoOut, <<>>, lines)
    ELSE PredictTry(m, lines, dirOk, customer)

\* a handler whose model is refitted on every row the log holds, so that its
\* probability moves with the log
predict_churn_Refits(m, lines, dirOk, customer) ==
    IF m = NoModel
    THEN Reply(500, "Model not loaded", NoOut, <<>>, lines)
    ELSE LET r == PredictTry(m, lines, dirOk, customer)
         IN  IF r.status = 200
             THEN [r EXCEPT !.out.churn_probability = (@ + DataRows(lines)) % 10001]
             ELSE r

\* predict_churn(customer) for a validated customer
predict_churn(m, lines, dirOk, customer) ==
    IF m = NoModel
    THEN Reply(500, "Model not loaded", NoOut, <<>>, lines)
    ELSE PredictTry(m, lines, dirOk, customer)

\* validation done inside the handler's try block: its error becomes a 500
PostPredict_ValidateInTry(m, lines, dirOk, body) ==
    IF m # NoModel /\ ValidationErrors(JsonObject(body)) # {}
    THEN Reply(500, "Prediction error", NoOut, <<>>, lines)
    ELSE predict_churn(m, lines, dirOk, JsonObject(body))

\* POST /predict as the framework serves it: the body is validated against
\* CustomerData first and the handler runs only for a valid one.
PostPredict(m, lines, dirOk, body) ==
    LET obj == JsonObject(body)
        errors == ValidationErrors(obj)
    IN  IF errors # {}
        THEN [Reply(422, "validation error", NoOut, <<>>, lines) EXCEPT !.errors = errors]
        ELSE predict_churn(m, lines, dirOk, obj)

(***************************************************************************)
(* POST /predict/batch                                                     *)
(***************************************************************************)
\* one pass of the for loop: the slot appended for a customer and the model
\* calls made for it
BatchItem(m, customer) ==
    LET input_dict == CustomerDict(customer)
        input_df == SelectColumns(DataFrame(input_dict), FeatureNames(m.kind))
    IN  IF input_df = KeyError
        THEN [slot |-> [churn_prediction |-> "", churn_probability |-> 0 - 1, error |-> "KeyError"],
              calls |-> <<>>]
        ELSE IF ModelRaises(m.kind, input_df)
             THEN [slot |-> [churn_prediction |-> "", churn_probability |-> 0 - 1,
                             error |-> "model error"],
                   calls |-> <<Call("predict", input_df)>>]
             ELSE [slot |-> BatchSlot(Predict(m.kind, input_df), PredictProba(m.kind, input_df)),
                   calls |-> <<Call("predict", input_df), Call("predict_proba", input_df)>>]

\* the calls of the i-th pass, marked with i
ItemCalls(item, i) == [c \in 1..Len(item.calls) |-> [item.calls[c] EXCEPT !.item = i]]

RECURSIVE BatchLoop_DropFailed(_, _, _, _)
\* the loop with an except branch that appends nothing
BatchLoop_DropFailed(m, customers, i, acc) ==
    IF i > Len(customers)
    THEN acc
    ELSE LET item == BatchItem(m, customers[i])
         IN  BatchLoop_DropFailed(m, customers, i + 1,
                 [results |-> IF item.slot.error = "" THEN Append(acc.results, item.slot)
                              ELSE acc.results,
                  calls |-> acc.calls \o ItemCalls(item, i)])

RECURSIVE BatchLoop_OneTry(_, _, _, _)
\* the loop with one try around it: after the first failure no further
\* record is predicted
BatchLoop_OneTry(m, customers, i, acc) ==
    IF i > Len(customers)
    THEN acc
    ELSE LET item == BatchItem(m, customers[i])
             failed == \E k \in 1..Len(acc.results) : acc.results[k].error # ""
         IN  BatchLoop_OneTry(m, customers, i + 1,
                 [results |-> Append(acc.results,
                                     IF failed
                                     THEN [churn_prediction |-> "", churn_probability |-> 0 - 1,
                                           error |-> "not predicted"]
                                     ELSE item.slot),
                  calls |-> IF failed THEN acc.calls ELSE acc.calls \o ItemCalls(item, i)])

RECURSIVE BatchLoop(_, _, _, _)
\* the for loop of predict_batch from customer i on
BatchLoop(m, customers, i, acc) ==
    IF i > Len(customers)
    THEN acc
    ELSE LET item == BatchItem(m, customers[i])
         IN  BatchLoop(m, customers, i + 1,
                 [results |-> Append(acc.results, item.slot),
                  calls |-> acc.calls \o ItemCalls(item, i)])

NoBatchOut == [predictions |-> <<>>, count |-> 0 - 1]

\* predict_batch(customers) for validated customers
predict_batch(m, lines, customers) ==
    IF m = NoModel
    THEN Reply(500, "Model not loaded", NoBatchOut, <<>>, lines)
    ELSE LET done == BatchLoop(m, customers, 1, [results |-> <<>>, calls |-> <<>>])
         IN  Reply(200, "", [predictions |-> done.results, count |-> Len(done.results)],
                   done.calls, lines)

\* POST /predict/batch as the framework serves it: the whole list is
\* validated against List[CustomerData] before the handler runs.
PostPredictBatch(m, lines, bodies) ==
    LET objs == [i \in 1..Len(bodies) |-> JsonObject(bodies[i])]
        errors == UNION {ValidationErrors(objs[i]) : i \in 1..Len(objs)}
    IN  IF errors # {}
        THEN [Reply(422, "validation error", NoBatchOut, <<>>, lines) EXCEPT !.errors = errors]
        ELSE predict_batch(m, lines, objs)

(***************************************************************************)
(* GET endpoints                                                           *)
(***************************************************************************)
root(m) ==
    [status |-> "healthy", message |-> "Customer Churn Prediction API",
     version |-> "1.0.0", model_loaded |-> m # NoModel]

\* a health check that reports the model as loaded whatever the handle is
health_check_AlwaysLoaded(m) == [status |-> "healthy", model |-> "loaded"]

health_check(m) ==
    [status |-> "healthy", model |-> IF m # NoModel THEN "loaded" ELSE "not loaded"]

model_info ==
    [model_type |-> "XGBoost Classifier", training_platform |-> "AWS SageMaker",
     features_count |-> 28, accuracy |-> 816, f1_score |-> 611,
     training_cost |-> "$0.0006", spot_savings |-> "69%"]

(***************************************************************************)
(* The requests the client sends.                                          *)
(***************************************************************************)
\* the example of CustomerData.Config, its unlisted fields 0
ExampleValue(f) ==
    CASE f = "tenure" -> 12
      [] f = "MonthlyCharges" -> 70
      [] f = "TotalCharges" -> 840
      [] f \in {"Partner", "PhoneService", "PaperlessBilling", "gender_Male",
                "Contract_Two_year"} -> 1
      [] OTHER -> 0

BaseBody == [i \in 1..Len(FieldOrder) |-> <<FieldOrder[i], ExampleValue(FieldOrder[i])>>]

SetField(body, f, v) ==
    [i \in 1..Len(body) |-> IF body[i][1] = f THEN <<f, v>> ELSE body[i]]

IsKept(S, member) == member[1] \notin S

Omit(body, S) == SelectSeq(body, LAMBDA member : IsKept(S, member))

Reverse(body) == [i \in 1..Len(body) |-> body[Len(body) + 1 - i]]

Rotate(body, k) == [i \in 1..Len(body) |-> body[((i + k - 1) % Len(body)) + 1]]

\* the values at and just outside the declared range of field p; inf where
\* no upper limit is declared; and the tenure of 500
ProbeValues(p) ==
    {FieldGe(p) - 1, FieldGe(p)}
    \cup (IF HasLe(p) THEN {FieldLe(p), FieldLe(p) + 1} ELSE {FloatInf})
    \cup (IF p = "tenure" THEN {500} ELSE {})

OmitSets(p) == {{p}, OptionalFields, OptionalFields \ {p}, {p, "gender_Male"}}

\* "gets": a client that only calls the GET endpoints
Suites == {"values", "shape", "batch", "gets"}

\* the /predict bodies of a client that varies field p of the example:
\* its value, or its presence and the order of the members
Bodies(p, s) ==
    CASE s = "values" -> {SetField(BaseBody, p, v) : v \in ProbeValues(p)}
      [] s = "shape" ->
            {BaseBody, Append(BaseBody, <<"customerID", 7590>>),
             Rotate(BaseBody, IndexOf(FieldOrder, p))}
            \cup {Omit(BaseBody, S) : S \in OmitSets(p)}
            \cup {Reverse(SetField(BaseBody, p, v)) : v \in {0, 1}}
      [] OTHER -> {}

\* the records of its batches: the example, a record the model rejects and
\* one that fails validation
BatchBodies(p) ==
    {BaseBody, SetField(BaseBody, "TotalCharges", FloatInf), SetField(BaseBody, p, 0 - 1)}

SeqsUpTo(S, n) == UNION {[1..k -> S] : k \in 0..n}

(***************************************************************************)
(* The service                                                             *)
(***************************************************************************)
\* resp before any request of the process
Idle ==
    [endpoint |-> "none", bodies |-> <<>>, status |-> 0, detail |-> "", errors |-> {},
     out |-> NoOut, calls |-> <<>>, appended |-> 0]

\* resp after a request: what was asked, what was answered, which model
\* calls were made and how many lines the log grew by
Served(endpoint, bodies, r, appended) ==
    [endpoint |-> endpoint, bodies |-> bodies, status |-> r.status, detail |-> r.detail,
     errors |-> r.errors, out |-> r.out, calls |-> r.calls, appended |-> appended]

\* the columns scale_features fits the scaler on and transforms
ScaledColumns == {"tenure", "MonthlyCharges", "TotalCharges"}

\* the mean and the deviation the scaler learns for a column of the Telco
\* data, to the unit
ScalerMean(f) ==
    CASE f = "tenure" -> 32
      [] f = "MonthlyCharges" -> 65
      [] OTHER -> 2280

ScalerScale(f) ==
    CASE f = "tenure" -> 25
      [] f = "MonthlyCharges" -> 30
      [] OTHER -> 2267

\* scaler.transform on one value of column f, in 1/100
ScalerTransform(f, v) == ((v - ScalerMean(f)) * 100) \div ScalerScale(f)

\* the scripts that write models/churn_model_fixed.joblib
FixedModelWriters == {"fix_model_features.py", "retrain_model.py"}

\* the artifact each of them dumps: fix_model_features.py fits on the
\* standardized column names, retrain_model.py on those of X_train.csv
WrittenBy(script) == IF script = "fix_model_features.py" THEN "fixed" ELSE "raw"

\* the first candidate is what one of the two scripts wrote last; the
\* sagemaker_production candidates are what was downloaded there
DiskConfigs ==
    {d \in [1..Len(model_paths) -> {"missing", "corrupt"} \cup ArtifactKinds] :
        /\ d[1] \in {"missing", "corrupt"} \cup {WrittenBy(script) : script \in FixedModelWriters}
        /\ \A i \in 2..Len(model_paths) :
             d[i] \in {"missing", "corrupt", "sagemaker", "unnamed"}}

OnlyFixed == [i \in 1..Len(model_paths) |-> IF i = 1 THEN "fixed" ELSE "missing"]

\* one artifact of each kind alone, a corrupt first candidate before a good
\* one, and no artifact at all
SomeDisks ==
    {d \in DiskConfigs :
        \/ Cardinality({i \in 1..Len(model_paths) : d[i] # "missing"}) <= 1
        \/ d[1] = "corrupt" /\ d[2] = "sagemaker" /\ d[3] = "missing"}

\* raw and shaped outside ShapeSpec
NoRaw == [prediction |-> 0 - 1, probability |-> 0 - 1]

NoShaped == [endpoint |-> "none", out |-> NoOut]

ShapeAtRest == raw = NoRaw /\ shaped = NoShaped

Callers == 1..MaxCallers

NoRow == [kind |-> "none"]

\* no caller is inside log_prediction
LockAtRest ==
    /\ pc = [t \in Callers |-> "idle"]
    /\ built = [t \in Callers |-> NoRow]
    /\ LOCK = 0
    /\ atStart = [t \in Callers |-> FALSE]
    /\ returned = 0

\* dp before a DataPreprocessor is made
NoData == [raw |-> <<>>, columns |-> <<>>, cells |-> <<>>, calls |-> 0, raised |-> FALSE]

NoResponse == [kind |-> "none", status |-> 0]

\* gen before generate_predictions.main runs
GenNotRun ==
    [at |-> "off", health |-> NoResponse, i |-> 0, successful |-> 0, failed |-> 0,
     posts |-> 0]

\* drift before drift_check.py runs
DriftNotRun == [at |-> "off", status |-> 0 - 1]

ScriptsAtRest == dp = NoData /\ gen = GenNotRun /\ drift = DriftNotRun

Init ==
    /\ \/ /\ disk \in DiskConfigs /\ logDirOk = TRUE
          /\ probe = "tenure" /\ suite = "gets"
       \/ /\ disk \in SomeDisks /\ logDirOk \in BOOLEAN
          /\ probe = "tenure" /\ suite \in {"values", "batch"}
       \/ /\ disk = OnlyFixed /\ logDirOk = TRUE
          /\ probe \in Fields /\ suite \in {"values", "shape"}
    /\ model = NoModel
    /\ started = "no"
    /\ assigns = 0
    /\ logFile = <<>>
    /\ resp = Idle
    /\ ShapeAtRest
    /\ LockAtRest
    /\ ScriptsAtRest

\* the startup event: load_model_at_startup(); an exception ends the process
Startup ==
    /\ started = "no"
    /\ LET r == load_model_at_startup(disk, model)
       IN  /\ model' = r.model
           /\ assigns' = assigns + r.assigns
           /\ started' = IF r.raised THEN "failed" ELSE "ready"
    /\ resp' = Idle
    /\ UNCHANGED <<disk, logDirOk, probe, suite, logFile>>
    /\ UNCHANGED <<shapeVars, lockVars, scriptVars>>

\* the process is started again; the log file stays
Restart ==
    /\ started # "no"
    /\ model' = NoModel
    /\ started' = "no"
    /\ assigns' = 0
    /\ resp' = Idle
    /\ UNCHANGED <<disk, logDirOk, probe, suite, logFile>>
    /\ UNCHANGED <<shapeVars, lockVars, scriptVars>>

Serving == started \in {"no", "ready"}

PostPredictReq ==
    /\ Serving
    /\ DataRows(logFile) < MaxLog
    /\ \E body \in Bodies(probe, suite) :
         \E r \in {PostPredict(model, logFile, logDirOk, body)} :
             /\ resp' = Served("predict", <<body>>, r, Len(r.lines) - Len(logFile))
             /\ logFile' = r.lines
    /\ UNCHANGED <<disk, logDirOk, probe, suite, model, started, assigns>>
    /\ UNCHANGED <<shapeVars, lockVars, scriptVars>>

PostPredictBatchReq ==
    /\ Serving
    /\ suite = "batch"
    /\ \E bodies \in SeqsUpTo(BatchBodies(probe), MaxBatch) :
         \E r \in {PostPredictBatch(model, logFile, bodies)} :
             /\ resp' = Served("batch", bodies, r, Len(r.lines) - Len(logFile))
             /\ logFile' = r.lines
    /\ UNCHANGED <<disk, logDirOk, probe, suite, model, started, assigns>>
    /\ UNCHANGED <<shapeVars, lockVars, scriptVars>>

GetReply(out) ==
    [status |-> 200, detail |-> "", errors |-> {}, out |-> out, calls |-> <<>>]

GetRoot ==
    /\ Serving
    /\ resp' = Served("root", <<>>, GetReply(root(model)), 0)
    /\ UNCHANGED <<disk, logDirOk, probe, suite, model, started, assigns, logFile>>
    /\ UNCHANGED <<shapeVars, lockVars, scriptVars>>

GetHealth ==
    /\ Serving
    /\ resp' = Served("health", <<>>, GetReply(health_check(model)), 0)
    /\ UNCHANGED <<disk, logDirOk, probe, suite, model, started, assigns, logFile>>
    /\ UNCHANGED <<shapeVars, lockVars, scriptVars>>

GetModelInfo ==
    /\ Serving
    /\ resp' = Served("model_info", <<>>, GetReply(model_info), 0)
    /\ UNCHANGED <<disk, logDirOk, probe, suite, model, started, assigns, logFile>>
    /\ UNCHANGED <<shapeVars, lockVars, scriptVars>>

Next ==
    \/ Startup
    \/ Restart
    \/ PostPredictReq
    \/ PostPredictBatchReq
    \/ GetRoot
    \/ GetHealth
    \/ GetModelInfo

Spec == Init /\ [][Next]_vars

(***************************************************************************)
(* ShapeSpec: the statements of predict_churn and predict_batch that turn  *)
(* the two model outputs into a response, applied to every class and every *)
(* probability of a grid that holds each threshold and its neighbours.     *)
(* The handle is whatever joblib.load returned, so the class is drawn      *)
(* apart from the probability.                                             *)
(***************************************************************************)
ProbGrid == 40   \* cells of the probability grid

Thresholds == {30000, 40000, 50000, 60000, 70000}

Probabilities ==
    {(100000 * k) \div ProbGrid : k \in 0..ProbGrid}
    \cup {t + d : t \in Thresholds, d \in {0 - 1, 0, 1}}

RawOutputs == [prediction : {0, 1}, probability : Probabilities]

\* a service started on the renamed-feature artifact that has served nothing
ServiceReady ==
    /\ disk = OnlyFixed
    /\ probe = "tenure"
    /\ suite = "values"
    /\ model = load_model_at_startup(OnlyFixed, NoModel).model
    /\ started = "ready"
    /\ assigns = 1
    /\ resp = Idle

ShapeInit ==
    /\ ServiceReady
    /\ logDirOk = TRUE
    /\ logFile = <<>>
    /\ LockAtRest
    /\ ScriptsAtRest
    /\ raw \in RawOutputs
    /\ shaped = NoShaped

\* predict_churn from the model outputs to the PredictionResponse
ShapePredict ==
    /\ shaped.endpoint = "none"
    /\ shaped' = [endpoint |-> "predict",
                  out |-> PredictionResponse(raw.prediction, raw.probability,
                                             Confidence(raw.probability),
                                             Recommendation(raw.probability))]
    /\ UNCHANGED <<serviceVars, logFile, resp, raw, lockVars, scriptVars>>

\* one pass of predict_batch from the model outputs to the slot
ShapeBatch ==
    /\ shaped.endpoint = "none"
    /\ shaped' = [endpoint |-> "batch", out |-> BatchSlot(raw.prediction, raw.probability)]
    /\ UNCHANGED <<serviceVars, logFile, resp, raw, lockVars, scriptVars>>

ShapeNext == ShapePredict \/ ShapeBatch

ShapeSpec == ShapeInit /\ [][ShapeNext]_vars

(***************************************************************************)
(* LogSpec: log_prediction statement by statement, for callers that run    *)
(* at once.  A caller is a /predict request whose inference has succeeded  *)
(* and that has reached its log_prediction call.  Each csv writer call is  *)
(* one step that reaches the file; the file object's buffer is flushed no  *)
(* later than the close, which is inside the lock.                         *)
(***************************************************************************)
\* the requests being logged
LoggedBodies == {BaseBody, SetField(BaseBody, "tenure", 0)}

LoggedRow(body) == BuildRow(CustomerDict(JsonObject(body)), EllipsisResponse, "success")

\* the log an earlier process left behind
PriorLog == <<HeaderLine, LoggedRow(BaseBody)>>

InFlight == Cardinality({t \in Callers : pc[t] # "idle"})

LogInit ==
    /\ ServiceReady
    /\ logDirOk \in BOOLEAN
    /\ ShapeAtRest
    /\ ScriptsAtRest
    /\ logFile \in {<<>>, PriorLog}
    /\ pc = [t \in Callers |-> "idle"]
    /\ built = [t \in Callers |-> NoRow]
    /\ LOCK = 0
    /\ atStart = [t \in Callers |-> FALSE]
    /\ returned = DataRows(logFile)

\* a lock that lets every caller in
LockIsFree_Always(holder) == TRUE

\* LOCK.acquire() goes through when no caller holds the lock
LockIsFree(holder) == holder = 0

\* row = {**data, ...}: the call begins and builds its row
EnterLog(t) ==
    /\ pc[t] = "idle"
    /\ returned + InFlight <= MaxLog
    /\ \E body \in LoggedBodies : built' = [built EXCEPT ![t] = LoggedRow(body)]
    /\ pc' = [pc EXCEPT ![t] = "with_lock"]
    /\ UNCHANGED <<serviceVars, logFile, resp, shapeVars, LOCK, atStart, returned, scriptVars>>

\* with LOCK:
Acquire(t) ==
    /\ pc[t] = "with_lock"
    /\ LockIsFree(LOCK)
    /\ LOCK' = t
    /\ pc' = [pc EXCEPT ![t] = "open"]
    /\ UNCHANGED <<serviceVars, logFile, resp, shapeVars, built, atStart, returned, scriptVars>>

\* with open(LOG_FILE, 'a', newline='') as f:
Open(t) ==
    /\ pc[t] = "open"
    /\ logDirOk
    /\ pc' = [pc EXCEPT ![t] = "tell"]
    /\ UNCHANGED <<serviceVars, logFile, resp, shapeVars, built, LOCK, atStart, returned, scriptVars>>

\* open() raises: the exception leaves the with LOCK block, which releases
\* the lock, and reaches the caller
OpenRaises(t) ==
    /\ pc[t] = "open"
    /\ ~logDirOk
    /\ LOCK' = 0
    /\ pc' = [pc EXCEPT ![t] = "idle"]
    /\ built' = [built EXCEPT ![t] = NoRow]
    /\ UNCHANGED <<serviceVars, logFile, resp, shapeVars, atStart, returned, scriptVars>>

\* if f.tell() == 0:
Tell(t) ==
    /\ pc[t] = "tell"
    /\ atStart' = [atStart EXCEPT ![t] = TellIsZero(logFile)]
    /\ pc' = [pc EXCEPT ![t] = IF TellIsZero(logFile) THEN "writeheader" ELSE "writerow"]
    /\ UNCHANGED <<serviceVars, logFile, resp, shapeVars, built, LOCK, returned, scriptVars>>

\* writer.writeheader(): the keys of the row
WriteHeader(t) ==
    /\ pc[t] = "writeheader"
    /\ logFile' = Append(logFile, [kind |-> "header", names |-> built[t].names])
    /\ pc' = [pc EXCEPT ![t] = "writerow"]
    /\ UNCHANGED <<serviceVars, resp, shapeVars, built, LOCK, atStart, returned, scriptVars>>

\* writer.writerow(row)
WriteRow(t) ==
    /\ pc[t] = "writerow"
    /\ logFile' = Append(logFile, built[t])
    /\ pc' = [pc EXCEPT ![t] = "exit"]
    /\ UNCHANGED <<serviceVars, resp, shapeVars, built, LOCK, atStart, returned, scriptVars>>

\* the file is closed, the lock released and the call returns
Exit(t) ==
    /\ pc[t] = "exit"
    /\ LOCK' = 0
    /\ pc' = [pc EXCEPT ![t] = "idle"]
    /\ built' = [built EXCEPT ![t] = NoRow]
    /\ atStart' = [atStart EXCEPT ![t] = FALSE]
    /\ returned' = returned + 1
    /\ UNCHANGED <<serviceVars, logFile, resp, shapeVars, scriptVars>>

LogNext ==
    \E t \in Callers :
        \/ EnterLog(t)
        \/ Acquire(t)
        \/ Open(t)
        \/ OpenRaises(t)
        \/ Tell(t)
        \/ WriteHeader(t)
        \/ WriteRow(t)
        \/ Exit(t)

LogSpec == LogInit /\ [][LogNext]_vars

(***************************************************************************)
(* CleanSpec: DataPreprocessor.clean_data on the frame that __init__ read. *)
(* A frame is its column names and the cells of its TotalCharges column.   *)
(***************************************************************************)
MaxCleans == 2   \* calls of clean_data on one DataPreprocessor

\* the columns of WA_Fn-UseC_-Telco-Customer-Churn.csv
TelcoColumns ==
    <<"customerID", "gender", "SeniorCitizen", "Partner", "Dependents", "tenure",
      "PhoneService", "MultipleLines", "InternetService", "OnlineSecurity",
      "OnlineBackup", "DeviceProtection", "TechSupport", "StreamingTV",
      "StreamingMovies", "Contract", "PaperlessBilling", "PaymentMethod",
      "MonthlyCharges", "TotalCharges", "Churn">>

\* the columns a given csv may lack
Droppable == {"customerID", "gender", "TotalCharges", "Churn"}

IsNotIn(S, name) == name \notin S

Without(columns, S) == SelectSeq(columns, LAMBDA name : IsNotIn(S, name))

\* a TotalCharges cell as read: the blank of a new customer, or an amount;
\* a number is written as its digits
CellValues == {" ", "0", "29.85"}

\* pd.to_numeric(errors='coerce') makes NaN of a cell that is no number
ToNumeric(cell) == IF cell = " " THEN "NaN" ELSE cell

\* .fillna(0, inplace=True) on the selected column: whether the fill lands
\* in the frame or in a copy of the column depends on the pandas build
FillNa(cell, lands) == IF cell = "NaN" /\ lands THEN "0" ELSE cell

\* a clean_data that drops the first column, whatever its name
clean_data_DropsFirst(d, lands) ==
    IF "TotalCharges" \notin Range(d.columns)
    THEN [d EXCEPT !.calls = @ + 1, !.raised = TRUE]
    ELSE [d EXCEPT !.calls = @ + 1,
                   !.cells = [i \in 1..Len(d.cells) |-> FillNa(ToNumeric(d.cells[i]), lands)],
                   !.columns = Tail(d.columns)]

\* clean_data(self): self.data['TotalCharges'] raises KeyError on a frame
\* without that column; otherwise the column is assigned in place and
\* customerID dropped when there is one
clean_data(d, lands) ==
    IF "TotalCharges" \notin Range(d.columns)
    THEN [d EXCEPT !.calls = @ + 1, !.raised = TRUE]
    ELSE [d EXCEPT !.calls = @ + 1,
                   !.cells = [i \in 1..Len(d.cells) |-> FillNa(ToNumeric(d.cells[i]), lands)],
                   !.columns = IF "customerID" \in Range(d.columns)
                               THEN Without(d.columns, {"customerID"})
                               ELSE d.columns]

\* DataPreprocessor(data_path)
NewPreprocessor(columns, cells) ==
    [raw |-> columns, columns |-> columns,
     cells |-> IF "TotalCharges" \in Range(columns) THEN cells ELSE <<>>,
     calls |-> 0, raised |-> FALSE]

CleanInit ==
    /\ ServiceReady
    /\ logDirOk = TRUE
    /\ logFile = <<>>
    /\ ShapeAtRest
    /\ LockAtRest
    /\ gen = GenNotRun
    /\ drift = DriftNotRun
    /\ \E S \in SUBSET Droppable : \E cells \in [1..2 -> CellValues] :
         dp = NewPreprocessor(Without(TelcoColumns, S), cells)

CleanData ==
    /\ dp.calls < MaxCleans
    /\ ~dp.raised
    /\ \E lands \in BOOLEAN : dp' = clean_data(dp, lands)
    /\ UNCHANGED <<serviceVars, logFile, resp, shapeVars, lockVars, gen, drift>>

CleanNext == CleanData

CleanSpec == CleanInit /\ [][CleanNext]_vars

(***************************************************************************)
(* GenSpec: generate_predictions.main against a server that answers each   *)
(* request in any of the ways a server can.                                *)
(***************************************************************************)
Attempts == 50

Response(status) == [kind |-> "response", status |-> status]

\* requests raised instead of returning a response
Raised(exception) == [kind |-> exception, status |-> 0]

\* a 200 whose body is not the JSON of a prediction
BadBody == [kind |-> "bad body", status |-> 200]

HealthOutcomes == {Response(200), Response(503), Raised("ConnectionError"), Raised("Timeout")}

PostOutcomes ==
    {Response(200), BadBody, Response(422), Response(500),
     Raised("ConnectionError"), Raised("Timeout")}

\* a make_prediction without its last except clause
make_prediction_NoCatchAll(outcome) ==
    IF outcome = Response(200) THEN [raised |-> FALSE, value |-> TRUE]
    ELSE IF outcome.kind \in {"response", "ConnectionError"}
         THEN [raised |-> FALSE, value |-> FALSE]
         ELSE [raised |-> TRUE, value |-> FALSE]

\* make_prediction(customer_data, profile_name): True for a 200 whose body
\* it could print; every exception is caught and gives False
make_prediction(outcome) ==
    IF outcome = Response(200) THEN [raised |-> FALSE, value |-> TRUE]
    ELSE [raised |-> FALSE, value |-> FALSE]

GenInit ==
    /\ ServiceReady
    /\ logDirOk = TRUE
    /\ logFile = <<>>
    /\ ShapeAtRest
    /\ LockAtRest
    /\ dp = NoData
    /\ drift = DriftNotRun
    /\ gen = [GenNotRun EXCEPT !.at = "health"]

\* the GET /health of main and its return on anything but a 200
CheckHealth ==
    /\ gen.at = "health"
    /\ \E h \in HealthOutcomes :
         gen' = [gen EXCEPT !.health = h,
                            !.at = IF h = Response(200) THEN "loop" ELSE "returned"]
    /\ UNCHANGED <<serviceVars, logFile, resp, shapeVars, lockVars, dp, drift>>

\* one pass of `for i in range(50)`
Attempt ==
    /\ gen.at = "loop"
    /\ gen.i < Attempts
    /\ \E outcome \in PostOutcomes :
         LET r == make_prediction(outcome)
         IN  gen' = IF r.raised
                    THEN [gen EXCEPT !.posts = @ + 1, !.at = "crashed"]
                    ELSE [gen EXCEPT !.posts = @ + 1,
                                     !.i = @ + 1,
                                     !.successful = IF r.value THEN @ + 1 ELSE @,
                                     !.failed = IF r.value THEN @ ELSE @ + 1]
    /\ UNCHANGED <<serviceVars, logFile, resp, shapeVars, lockVars, dp, drift>>

\* the loop is over: the summary is printed and main returns
Summary ==
    /\ gen.at = "loop"
    /\ gen.i = Attempts
    /\ gen' = [gen EXCEPT !.at = "done"]
    /\ UNCHANGED <<serviceVars, logFile, resp, shapeVars, lockVars, dp, drift>>

GenNext == CheckHealth \/ Attempt \/ Summary

GenSpec == GenInit /\ [][GenNext]_vars

(***************************************************************************)
(* DriftSpec: monitoring/drift_check.py, run once from its first statement *)
(* to the exit of the interpreter.                                         *)
(***************************************************************************)
\* what the run finds: whether the reference sample and the prediction log
\* can be read, whether report.run and report.save_html succeed, and what
\* report.as_dict() holds
DriftRuns ==
    [ref : BOOLEAN, prod : BOOLEAN, run : BOOLEAN,
     metrics : {"ok", "empty", "missing"},
     dataset_drift : {"True", "False", "None", "missing"},
     n_drifted : {"0", "3", "None", "missing"},
     share : {"0.1", "None", "missing"}]

\* an exception that nothing catches ends the interpreter with status 1
Uncaught(run) == ~run.ref \/ ~run.prod \/ ~run.run

\* the try block raises KeyError, IndexError or TypeError: a key or the
\* first metric is missing, or None is multiplied or compared
ParseRaises(run) ==
    \/ run.metrics # "ok"
    \/ run.dataset_drift = "missing"
    \/ run.n_drifted \in {"missing", "None"}
    \/ run.share \in {"missing", "None"}

\* the exit status of the script
drift_check(run) ==
    IF Uncaught(run) THEN 1
    ELSE IF ParseRaises(run) THEN 0
    ELSE IF run.dataset_drift = "True" THEN 1
    ELSE 0

DriftInit ==
    /\ ServiceReady
    /\ logDirOk = TRUE
    /\ logFile = <<>>
    /\ ShapeAtRest
    /\ LockAtRest
    /\ dp = NoData
    /\ gen = GenNotRun
    /\ \E run \in DriftRuns : drift = [at |-> "start", run |-> run, status |-> 0 - 1]

RunDriftCheck ==
    /\ drift.at = "start"
    /\ drift' = [drift EXCEPT !.at = "exited", !.status = drift_check(drift.run)]
    /\ UNCHANGED <<serviceVars, logFile, resp, shapeVars, lockVars, dp, gen>>

DriftNext == RunDriftCheck

DriftSpec == DriftInit /\ [][DriftNext]_vars

(***************************************************************************)
(* The claims.  What a claim calls valid, out of range or missing is       *)
(* written here from the claim's words, not from the validation above.     *)
(***************************************************************************)
MemberNames(body) == {body[i][1] : i \in 1..Len(body)}

\* the value the client gave to field f, 0 for a member it left out
GivenValue(body, f) ==
    IF f \in MemberNames(body)
    THEN body[CHOOSE i \in 1..Len(body) : body[i][1] = f][2]
    ELSE 0

EightRequired ==
    {"tenure", "MonthlyCharges", "TotalCharges", "SeniorCitizen", "Partner",
     "Dependents", "PhoneService", "PaperlessBilling"}

OutOfRange(member) ==
    /\ member[1] \in Fields
    /\ \/ member[2] < 0
       \/ member[1] = "tenure" /\ member[2] > 100
       \/ member[1] = "MonthlyCharges" /\ member[2] > 200
       \/ member[1] \notin {"tenure", "MonthlyCharges", "TotalCharges"} /\ member[2] \notin {0, 1}

HasOutOfRange(body) == \E i \in 1..Len(body) : OutOfRange(body[i])

FailsValidation(body) == HasOutOfRange(body) \/ ~(EightRequired \subseteq MemberNames(body))

IsPost == resp.endpoint \in {"predict", "batch"}

\* C1: in every /predict request and every record of a /predict/batch
\* request that reaches the model, the columns handed to the model are the
\* loaded model's feature names, position by position, each column holds
\* the value the request gave to the field of that name, and a body with
\* the same members in the opposite order makes the same model calls.
C1_ColumnsAreFeatureNames ==
    IsPost =>
        /\ \A c \in 1..Len(resp.calls) :
             LET call == resp.calls[c]
             IN  /\ call.columns = FeatureNames(model.kind)
                 /\ Len(call.values) = Len(call.columns)
                 /\ \A i \in 1..Len(call.columns) :
                      call.values[i] = GivenValue(resp.bodies[call.item], call.columns[i])
        /\ resp.endpoint = "predict" =>
             PostPredict(model, <<>>, logDirOk, Reverse(resp.bodies[1])).calls = resp.calls

\* a /predict request whose members are not in field order reached a model
\* whose feature order is not the field order either
C1_Witness ==
    /\ resp.endpoint = "predict"
    /\ Len(resp.calls) = 2
    /\ resp.bodies[1][1][1] # FieldOrder[1]
    /\ FeatureNames(model.kind) # FieldOrder
    /\ resp.calls[2].columns[1] = "SeniorCitizen"

\* C2: a request with a present field outside its declared range is
\* rejected by validation (422), no model function is called for it and no
\* line is appended to the audit log.
C2_OutOfRangeRejected ==
    (IsPost /\ \E i \in 1..Len(resp.bodies) : HasOutOfRange(resp.bodies[i])) =>
        /\ resp.status = 422
        /\ resp.calls = <<>>
        /\ resp.appended = 0

\* tenure = 500 was sent to a service whose model is loaded and whose log
\* already holds a row
C2_Witness ==
    /\ resp.endpoint = "predict"
    /\ GivenValue(resp.bodies[1], "tenure") = 500
    /\ model.kind = "fixed"
    /\ DataRows(logFile) > 0
    /\ resp.status = 422

\* C3: on /predict a validation failure is answered 4xx and never 5xx, and
\* a 5xx is only answered when the model is unset or validation has passed.
C3_ValidationIsClientError ==
    resp.endpoint = "predict" =>
        /\ FailsValidation(resp.bodies[1]) => resp.status \in 400..499
        /\ resp.status >= 500 => (model = NoModel \/ ~FailsValidation(resp.bodies[1]))

\* a body without a required field was sent while the model was loaded
C3_Witness ==
    /\ resp.endpoint = "predict"
    /\ model # NoModel
    /\ ~(EightRequired \subseteq MemberNames(resp.bodies[1]))
    /\ resp.status = 422
    /\ resp.errors # {}

\* C4: validation accepts a /predict body only if it has all eight required
\* fields; a body with them whose present fields are in range is accepted
\* whichever optional fields it leaves out, and every optional field left
\* out reaches the model as 0.
C4_RequiredAndDefaults ==
    resp.endpoint = "predict" =>
        /\ resp.status # 422 => EightRequired \subseteq MemberNames(resp.bodies[1])
        /\ (EightRequired \subseteq MemberNames(resp.bodies[1]) /\ ~HasOutOfRange(resp.bodies[1]))
              => resp.status # 422
        /\ \A c \in 1..Len(resp.calls) :
             \A i \in 1..Len(resp.calls[c].columns) :
                resp.calls[c].columns[i] \in OptionalFields \ MemberNames(resp.bodies[1])
                    => resp.calls[c].values[i] = 0

\* a body with none of the optional fields was accepted and predicted on
C4_Witness ==
    /\ resp.endpoint = "predict"
    /\ MemberNames(resp.bodies[1]) = EightRequired
    /\ resp.status = 200
    /\ Len(resp.calls) = 2

AllPassValidation == \A i \in 1..Len(resp.bodies) : ~FailsValidation(resp.bodies[i])

\* C5 as stated: while the handle is unset every POST /predict and POST
\* /predict/batch is answered 500 "Model not loaded", with no model call and
\* nothing appended to the log.
C5_Original ==
    (model = NoModel /\ IsPost) =>
        /\ resp.status = 500
        /\ resp.detail = "Model not loaded"
        /\ resp.calls = <<>>
        /\ resp.appended = 0

\* C5: while the handle is unset, a POST /predict or /predict/batch whose
\* body passes validation is answered 500 "Model not loaded" and one whose
\* body fails validation 422; neither calls a model function nor appends
\* to the log.
C5_UnloadedFailsFast ==
    (model = NoModel /\ IsPost) =>
        /\ resp.calls = <<>>
        /\ resp.appended = 0
        /\ AllPassValidation => resp.status = 500 /\ resp.detail = "Model not loaded"
        /\ ~AllPassValidation => resp.status = 422

\* a valid /predict body was refused after a restart that left the handle
\* unset, the log still holding the rows of the earlier process
C5_Witness ==
    /\ model = NoModel
    /\ resp.endpoint = "predict"
    /\ ~FailsValidation(resp.bodies[1])
    /\ resp.status = 500
    /\ DataRows(logFile) > 0

\* C6: the handle is assigned at most once in the life of the process, and
\* no step of a ready service changes it.
C6_HandleAssignedOnce ==
    /\ [](assigns <= 1)
    /\ [][(started = "ready" /\ started' = "ready") => model' = model]_vars

\* a batch was predicted by the model that startup assigned
C6_Witness ==
    /\ started = "ready"
    /\ assigns = 1
    /\ resp.endpoint = "batch"
    /\ resp.status = 200
    /\ Len(resp.calls) > 0

FirstWhere(S) == CHOOSE i \in S : \A j \in S : i <= j

\* C7 as stated: after a successful startup the loaded model is the
\* artifact at the first candidate path that exists.
C7_Original ==
    started = "ready" =>
        model.path = FirstWhere({i \in 1..Len(model_paths) : disk[i] # "missing"})

\* C7: after a successful startup the loaded model is the artifact at the
\* first candidate path that exists and loads; an existing candidate that
\* fails to load is passed over, and no later candidate is loaded when an
\* earlier one exists and loads.
C7_FirstLoadableWins ==
    started = "ready" =>
        /\ model.path = FirstWhere({i \in 1..Len(model_paths) :
                                      disk[i] \notin {"missing", "corrupt"}})
        /\ model.kind = disk[model.path]

\* the first candidate exists but does not load, and a later one was loaded
C7_Witness ==
    /\ started = "ready"
    /\ disk[1] = "corrupt"
    /\ model.path > 1

\* C8: load_model_at_startup either returns with the handle set to a model
\* it loaded, or raises: the service is never ready with the handle unset,
\* and with the handle unset after startup the startup has failed.
C8_NeverReadyUnloaded ==
    /\ started = "ready" => (model # NoModel /\ model.kind \in ArtifactKinds)
    /\ (started # "no" /\ model = NoModel) => started = "failed"

\* every candidate was missing or failed to load, one of them existing, and
\* startup raised
C8_Witness ==
    /\ started = "failed"
    /\ model = NoModel
    /\ \E i \in 1..Len(model_paths) : disk[i] = "corrupt"

\* C9: GET /health answers 200 with status "healthy", and its model field
\* is "not loaded" exactly when the handle is unset and "loaded" exactly
\* when it is set.
C9_HealthReportsHandle ==
    resp.endpoint = "health" =>
        /\ resp.status = 200
        /\ resp.out.status = "healthy"
        /\ resp.out.model = "not loaded" <=> model = NoModel
        /\ resp.out.model = "loaded" <=> model # NoModel

\* /health was asked before the model was loaded
C9_Witness ==
    /\ resp.endpoint = "health"
    /\ model = NoModel
    /\ resp.out.model = "not loaded"

\* C10 as stated: with a loaded model a batch of N records is answered with
\* N slots and count N, however many records fail.
C10_Original ==
    (model # NoModel /\ resp.endpoint = "batch") =>
        /\ resp.status = 200
        /\ Len(resp.out.predictions) = Len(resp.bodies)
        /\ resp.out.count = Len(resp.bodies)

\* C10: with a loaded model a batch of N records that all pass validation
\* is answered 200 with N slots and count N, slot i holding the prediction
\* of record i or the error the model raised on it, however many records
\* the model fails on; a batch with a record that fails validation is
\* answered 422 and has no slots.
C10_BatchKeepsSize ==
    (model # NoModel /\ resp.endpoint = "batch") =>
        IF AllPassValidation
        THEN /\ resp.status = 200
             /\ Len(resp.out.predictions) = Len(resp.bodies)
             /\ resp.out.count = Len(resp.bodies)
             /\ \A i \in 1..Len(resp.bodies) :
                  resp.out.predictions[i] = BatchItem(model, JsonObject(resp.bodies[i])).slot
        ELSE /\ resp.status = 422
             /\ resp.out.predictions = <<>>

\* a batch in which the model failed on one record and predicted another
C10_Witness ==
    /\ model # NoModel
    /\ resp.endpoint = "batch"
    /\ resp.status = 200
    /\ \E i, j \in 1..Len(resp.out.predictions) :
         /\ i < j
         /\ resp.out.predictions[i].error # ""
         /\ resp.out.predictions[j].error = ""

\* what /predict answers for record i of the last batch when it is sent
\* alone to the same model
Alone(i) == PostPredict(model, <<>>, TRUE, resp.bodies[i])

IsErrorSlot(slot) == slot.error # "" /\ slot.churn_prediction = ""

IsPredictionOf(slot, out) ==
    /\ slot.error = ""
    /\ slot.churn_prediction = out.churn_prediction
    /\ slot.churn_probability = out.churn_probability

\* slot i holds record i's own prediction, or only an error when record i
\* fails
FailuresAreInline ==
    /\ resp.status = 200
    /\ Len(resp.out.predictions) = Len(resp.bodies)
    /\ \A i \in 1..Len(resp.bodies) :
         IF Alone(i).status = 200
         THEN IsPredictionOf(resp.out.predictions[i], Alone(i).out)
         ELSE IsErrorSlot(resp.out.predictions[i])

\* C11 as stated: with a loaded model a batch is answered 200 whichever of
\* its records fail validation or fail in the model; the slot of a failed
\* record holds only an error and every other slot the prediction of its
\* own record.
C11_Original ==
    (model # NoModel /\ resp.endpoint = "batch") => FailuresAreInline

\* C11: with a loaded model a batch whose records all pass validation is
\* answered 200; the slot of a record the model fails on holds only an
\* error and every other slot holds the prediction /predict gives for its
\* record alone.  A batch with a record that fails validation is answered
\* 422 as a whole: no record of it is predicted.
C11_ModelFailuresAreInline ==
    (model # NoModel /\ resp.endpoint = "batch") =>
        IF AllPassValidation
        THEN FailuresAreInline
        ELSE /\ resp.status = 422
             /\ resp.out.predictions = <<>>
             /\ resp.calls = <<>>

\* a batch whose first record the model failed on and whose second record
\* was still predicted
C11_Witness ==
    /\ model # NoModel
    /\ resp.endpoint = "batch"
    /\ resp.status = 200
    /\ Len(resp.out.predictions) = 2
    /\ IsErrorSlot(resp.out.predictions[1])
    /\ resp.out.predictions[2].churn_prediction \in {"Will Churn", "Will Not Churn"}
    /\ Len(resp.calls) = 3

\* C12: for every probability the tier is one of High, Medium and Low;
\* High iff p > 0.7 or p < 0.3; Medium iff 0.3 <= p < 0.4 or
\* 0.6 < p <= 0.7; Low iff 0.4 <= p <= 0.6.
C12_ConfidenceTiers ==
    shaped.endpoint = "predict" =>
        LET p == raw.probability
            tier == shaped.out.confidence
        IN  /\ tier \in {"High", "Medium", "Low"}
            /\ tier = "High" <=> (p > 70000 \/ p < 30000)
            /\ tier = "Medium" <=> ((30000 <= p /\ p < 40000) \/ (60000 < p /\ p <= 70000))
            /\ tier = "Low" <=> (40000 <= p /\ p <= 60000)

\* the probability 0.7 was given the tier Medium
C12_Witness ==
    /\ shaped.endpoint = "predict"
    /\ raw.probability = 70000
    /\ shaped.out.confidence = "Medium"

UrgentText == "High churn risk! Contact customer immediately with retention offer."

MonitorText == "Moderate risk. Monitor customer satisfaction and engagement."

UpsellText == "Low risk. Customer likely to stay. Focus on upselling opportunities."

\* C13: for every probability the recommendation is one of the three texts
\* and never empty: the urgent one iff p > 0.7, the monitor one iff
\* 0.5 < p <= 0.7, the upsell one iff p <= 0.5.
C13_RecommendationBands ==
    shaped.endpoint = "predict" =>
        LET p == raw.probability
            text == shaped.out.recommendation
        IN  /\ text \in {UrgentText, MonitorText, UpsellText}
            /\ text # ""
            /\ text = UrgentText <=> p > 70000
            /\ text = MonitorText <=> (50000 < p /\ p <= 70000)
            /\ text = UpsellText <=> p <= 50000

\* the probability 0.5 was given the upsell text
C13_Witness ==
    /\ shaped.endpoint = "predict"
    /\ raw.probability = 50000
    /\ shaped.out.recommendation = UpsellText

\* C14: in the /predict response and in a /predict/batch slot the label is
\* "Will Churn" iff the raw class is 1 and "Will Not Churn" otherwise,
\* whatever the probability.
C14_LabelFromRawClass ==
    shaped.endpoint \in {"predict", "batch"} =>
        /\ shaped.out.churn_prediction = "Will Churn" <=> raw.prediction = 1
        /\ shaped.out.churn_prediction = "Will Not Churn" <=> raw.prediction # 1

\* a /predict response labelled "Will Churn" for class 1 with a probability
\* below one half
C14_Witness ==
    /\ shaped.endpoint = "predict"
    /\ raw.prediction = 1
    /\ raw.probability < 50000
    /\ shaped.out.churn_prediction = "Will Churn"

Accepted(r) == r.endpoint = "predict" /\ r.status = 200

\* C15: a /predict response depends on the record and the loaded model
\* only: it is what the handler answers for the same record whatever the
\* log holds, and a record accepted twice in a row by an unchanged model is
\* answered the same both times.
C15_SameRecordSameOutcome ==
    /\ [](Accepted(resp) =>
            \A lines \in {<<>>, logFile} :
                PostPredict(model, lines, TRUE, resp.bodies[1]).out = resp.out)
    /\ [][(Accepted(resp) /\ Accepted(resp') /\ resp'.bodies = resp.bodies /\ model' = model)
            => resp'.out = resp.out]_vars

\* the record just accepted is one the log already held a row for
C15_Witness ==
    /\ Accepted(resp)
    /\ Len(logFile) = 3
    /\ logFile[2].data = logFile[3].data
    /\ logFile[3].data = CustomerDict(JsonObject(resp.bodies[1]))

OutcomeColumns == <<"prediction", "probability", "status", "exec_time", "timestamp">>

\* the header names the fields of the request and then the outcome columns
NamesFieldsThenOutcome(names, data) ==
    /\ Len(names) = Cardinality(DOMAIN data) + Len(OutcomeColumns)
    /\ {names[i] : i \in 1..Cardinality(DOMAIN data)} = DOMAIN data
    /\ \A i \in 1..Len(OutcomeColumns) :
         names[Cardinality(DOMAIN data) + i] = OutcomeColumns[i]

\* C16: whichever way the callers interleave, and whether the log began
\* empty or was left by an earlier process, the log is one header line,
\* naming the request fields and then prediction, probability, status,
\* exec_time, timestamp, followed by data rows only; with no call under
\* way it holds exactly one data row for every call that has returned.
C16_OneHeaderThenRows ==
    /\ Len(logFile) > 0 =>
         /\ logFile[1].kind = "header"
         /\ \A i \in 2..Len(logFile) :
              /\ logFile[i].kind = "row"
              /\ NamesFieldsThenOutcome(logFile[1].names, logFile[i].data)
    /\ returned <= DataRows(logFile)
    /\ InFlight = 0 => DataRows(logFile) = returned

\* two calls that ran at once have both returned, on a log that began
\* empty: the second row is not the one the earlier process would have left
C16_Witness ==
    /\ InFlight = 0
    /\ returned = 2
    /\ Len(logFile) = 3
    /\ logFile[2] # LoggedRow(BaseBody)

InAppend == {"open", "tell", "writeheader", "writerow", "exit"}

\* C17: at most one caller is between the open and the release at any
\* time, and it holds the lock; no second caller observes an empty file; a
\* caller that observed an empty file still finds it empty when it writes
\* the header, and its row follows its own header.
C17_OneCallerAppends ==
    /\ Cardinality({t \in Callers : pc[t] \in InAppend}) <= 1
    /\ \A t \in Callers : pc[t] \in InAppend => LOCK = t
    /\ Cardinality({t \in Callers : atStart[t]}) <= 1
    /\ \A t \in Callers :
         /\ pc[t] = "writeheader" => logFile = <<>>
         /\ (pc[t] = "writerow" /\ atStart[t]) => Len(logFile) = 1

\* one caller stands between its header check and its header write while
\* another waits for the lock
C17_Witness ==
    \E t, u \in Callers :
        /\ pc[t] = "writeheader"
        /\ pc[u] = "with_lock"
        /\ LOCK = t

\* both model functions returned for the last /predict request
InferenceSucceeded ==
    /\ resp.endpoint = "predict"
    /\ Len(resp.calls) = 2

\* C18: a /predict request whose inference succeeded is answered 200 with
\* its prediction also when the audit log cannot be opened.
C18_LogFailureNotPropagated ==
    (InferenceSucceeded /\ ~logDirOk) =>
        /\ resp.status = 200
        /\ resp.out.churn_prediction \in {"Will Churn", "Will Not Churn"}

\* the line a /predict request answered 200 left last in the log
LastLine == logFile[Len(logFile)]

\* C19: the row appended for a /predict request answered 200 holds the
\* request's field values, status "success", and in its prediction and
\* probability columns the churn_prediction and the churn_probability of
\* the response.
C19_RowCarriesOutcome ==
    Accepted(resp) =>
        /\ resp.appended > 0
        /\ LastLine.kind = "row"
        /\ LastLine.status = "success"
        /\ \A f \in Fields : LastLine.data[f] = GivenValue(resp.bodies[1], f)
        /\ LastLine.prediction = resp.out.churn_prediction
        /\ LastLine.probability = resp.out.churn_probability

\* data rows appended by the last request: the first write also put the
\* header
RowsAppended ==
    IF resp.appended > 0 /\ resp.appended = Len(logFile)
    THEN resp.appended - 1
    ELSE resp.appended

\* C20: once a POST request that passed validation has been answered by a
\* loaded model with a writable log, the log holds one row more for each of
\* its records: the k-th of them, for the k-th record, with status
\* "success" when the record was predicted and "error" when it was not.
C20_EveryRequestRecorded ==
    (IsPost /\ model # NoModel /\ logDirOk /\ AllPassValidation) =>
        /\ RowsAppended = Len(resp.bodies)
        /\ \A k \in 1..Len(resp.bodies) :
             LET line == logFile[Len(logFile) - Len(resp.bodies) + k]
             IN  /\ line.kind = "row"
                 /\ line.status = IF Alone(k).status = 200 THEN "success" ELSE "error"

IsPrefix(old, new) == Len(old) <= Len(new) /\ SubSeq(new, 1, Len(old)) = old

C22_NoNamesFailsStartup == started = "ready" => model.kind # "unnamed"

\* C23: a validated /predict request to a loaded model with a writable log
\* reaches inference, and every feature of the model that the request does
\* not supply is 0 at its position in the frame handed to the model.
C23_AbsentFeaturesAreZero ==
    (resp.endpoint = "predict" /\ model # NoModel /\ logDirOk
        /\ ~FailsValidation(resp.bodies[1])) =>
        /\ Len(resp.calls) > 0
        /\ \A c \in 1..Len(resp.calls) :
             /\ resp.calls[c].columns = FeatureNames(model.kind)
             /\ \A i \in 1..Len(resp.calls[c].columns) :
                  resp.calls[c].columns[i] \notin MemberNames(resp.bodies[1])
                      => resp.calls[c].values[i] = 0

\* the frame of call c, as the model was handed it
FrameOf(call) == [columns |-> call.columns, values |-> call.values]

\* C24: a validated /predict request to a loaded model is answered 200 only
\* when both model functions were called and neither raised; when the
\* columns cannot be selected or a model function raises it is answered 500
\* with the detail of a prediction error and without a prediction.
C24_ModelFailureIsServerError ==
    (resp.endpoint = "predict" /\ model # NoModel /\ ~FailsValidation(resp.bodies[1])) =>
        /\ resp.status = 200 =>
             /\ Len(resp.calls) = 2
             /\ \A c \in 1..2 : ~ModelRaises(model.kind, FrameOf(resp.calls[c]))
        /\ (Len(resp.calls) < 2
              \/ GivenValue(resp.bodies[1], "TotalCharges") >= FloatInf) =>
             /\ resp.status = 500
             /\ resp.detail = "Prediction error"
             /\ resp.out = NoOut
             /\ resp.appended = 0

\* the model rejected the infinite TotalCharges of a validated request
C24_Witness ==
    /\ resp.endpoint = "predict"
    /\ model.kind = "fixed"
    /\ GivenValue(resp.bodies[1], "TotalCharges") = FloatInf
    /\ Len(resp.calls) = 1
    /\ resp.status = 500

\* C25: after a clean_data() that returned, the frame has no customerID
\* column, every other column it was read with is still there, and a
\* further clean_data() leaves the set of columns as it is.
C25_CleanDropsOnlyCustomerID ==
    (dp.calls > 0 /\ ~dp.raised) =>
        /\ "customerID" \notin Range(dp.columns)
        /\ Range(dp.columns) = Range(dp.raw) \ {"customerID"}
        /\ \A lands \in BOOLEAN :
             /\ ~clean_data(dp, lands).raised
             /\ Range(clean_data(dp, lands).columns) = Range(dp.columns)

\* clean_data() was called twice on a frame read with a customerID column
C25_Witness ==
    /\ dp.calls = 2
    /\ ~dp.raised
    /\ "customerID" \in Range(dp.raw)
    /\ Len(dp.columns) = Len(dp.raw) - 1

\* the tier and the text that the thresholds give to a probability
TierOf(p) ==
    IF p > 70000 \/ p < 30000 THEN "High"
    ELSE IF (30000 <= p /\ p < 40000) \/ (60000 < p /\ p <= 70000) THEN "Medium"
    ELSE "Low"

TextOf(p) ==
    IF p > 70000 THEN UrgentText
    ELSE IF 50000 < p /\ p <= 70000 THEN MonitorText
    ELSE UpsellText

\* the reported churn_probability, in 1/100000
Reported == shaped.out.churn_probability * 10

AgreesWithReported ==
    /\ shaped.out.confidence = TierOf(Reported)
    /\ shaped.out.recommendation = TextOf(Reported)

\* C26 as stated: the confidence and the recommendation of a /predict
\* response are the ones the thresholds give to the reported
\* churn_probability.
C26_Original == shaped.endpoint = "predict" => AgreesWithReported

\* C26: the confidence and the recommendation are the ones the thresholds
\* give to the unrounded probability; the reported churn_probability lies
\* within 0.00005 of it; and they agree with the reported value unless
\* rounding has put the reported value on a threshold that the unrounded
\* probability is not on.
C26_AgreesOffThresholds ==
    shaped.endpoint = "predict" =>
        /\ shaped.out.confidence = TierOf(raw.probability)
        /\ shaped.out.recommendation = TextOf(raw.probability)
        /\ Reported - raw.probability \in (0 - 5)..5
        /\ (Reported \notin {30000, 40000, 50000, 60000, 70000} \/ Reported = raw.probability)
              => AgreesWithReported

\* a response that reports 0.7 with the confidence High of 0.70001
C26_Witness ==
    /\ shaped.endpoint = "predict"
    /\ raw.probability = 70001
    /\ shaped.out.churn_probability = 7000
    /\ shaped.out.confidence = "High"

\* C27: once the API has loaded what one of the scripts wrote to
\* models/churn_model_fixed.joblib, the model's feature names are all
\* fields of CustomerData and the column selection of every valid /predict
\* request succeeds.
C27_WritersKeepFieldNames ==
    (started = "ready" /\ model.path = 1
        /\ \E script \in FixedModelWriters : disk[1] = WrittenBy(script)) =>
        /\ Range(FeatureNames(model.kind)) \subseteq Fields
        /\ (resp.endpoint = "predict" /\ ~FailsValidation(resp.bodies[1]))
              => Len(resp.calls) > 0

\* C28: the tenure, MonthlyCharges and TotalCharges that reach the model
\* in /predict and /predict/batch are the request's values transformed by
\* the scaler that the training data was transformed with.
C28_ScaledAsInTraining ==
    IsPost =>
        \A c \in 1..Len(resp.calls) :
            \A i \in 1..Len(resp.calls[c].columns) :
                resp.calls[c].columns[i] \in ScaledColumns =>
                    resp.calls[c].values[i] =
                        ScalerTransform(resp.calls[c].columns[i],
                                        GivenValue(resp.bodies[resp.calls[c].item],
                                                   resp.calls[c].columns[i]))

\* C29: main posts nothing unless GET /health answered 200; every attempt
\* made is counted once, as successful or as failed; and when main is done
\* it has made 50 attempts and successful + failed = 50.
C29_EveryAttemptCounted ==
    /\ gen.posts > 0 => gen.health = Response(200)
    /\ gen.at = "returned" => gen.posts = 0
    /\ gen.at # "crashed"
    /\ gen.successful + gen.failed = gen.posts
    /\ gen.posts = gen.i
    /\ gen.at = "done" =>
         /\ gen.posts = 50
         /\ gen.successful + gen.failed = 50

\* main is done after attempts of which some succeeded and some failed
C29_Witness ==
    /\ gen.at = "done"
    /\ gen.successful > 0
    /\ gen.failed > 0

\* C30: the script exits with status 1 when the report was made and its
\* dataset_drift flag is true, and with status 0 in every other case.
C30_ExitOneIffDrift ==
    drift.at = "exited" =>
        drift.status =
            IF drift.run.ref /\ drift.run.prod /\ drift.run.run /\ drift.run.metrics = "ok"
                /\ drift.run.dataset_drift = "True"
            THEN 1
            ELSE 0

====
